---- MODULE Spec2Model ----
(***************************************************************************)
(* State-machine model of cltkv1's EmbeddingsProcess                       *)
(* (src/cltkv1/embeddings/processes.py) and WordNetProcess                 *)
(* (src/cltkv1/wordnet/processes.py).                                      *)
(*                                                                         *)
(* Python values are tagged records ([type |-> ...]); object identity is   *)
(* an id field (Doc objects live in `heap`, backend objects in `objs`).    *)
(* Floats are written as integers: 1 stands for 1.0 and 0 for 0.0.         *)
(***************************************************************************)
EXTENDS Integers, Sequences, FiniteSets, TLC

VARIABLES
    proc,       \* the Process instance (its dataclass fields and __dict__ cache)
    heap,       \* Doc objects by identity: id -> [words |-> sequence of Word]
    objs,       \* every backend / reader object constructed so far, in order
    veclen,     \* what the backend's get_embedding_length() reports
    table,      \* what the backend's get_word_vector(word) does, per word
    last,       \* outcome of the most recent call on the instance
    trace,      \* backend calls made by the most recent call, in order
    seen,       \* every value an ``algorithm`` access has returned so far
    calls,      \* the calls the caller has made on the instance, in order
    threads     \* per-thread position and locals (concurrent specification)

vars == <<proc, heap, objs, veclen, table, last, trace, seen, calls, threads>>

----------------------------------------------------------------------------
\* Bounds of the model.
MaxTokens == 2      \* longest word sequence of the input document
MaxDim == 2         \* largest vector length a backend reports or returns
MaxCalls == 3       \* calls the caller makes on one instance

----------------------------------------------------------------------------
\* Python values.
None == [type |-> "NoneType"]
ndarray(v) == [type |-> "ndarray", value |-> v]
pylist(v) == [type |-> "list", value |-> v]
DocRef(i) == [type |-> "Doc", id |-> i]
isinstance(v, t) == v.type = t

Strings == {"a", "b"}
Languages == {"lat", "grc"}
Variants == {"fasttext", "nlpl", "nonexistent"}

\* All sequences over S of length 0..n.
SeqsUpTo(S, n) == UNION {[1..k -> S] : k \in 0..n}

\* The arrays of length d a backend may hand out (unit vectors).
UnitArrays(d) == {ndarray([i \in 1..d |-> IF i = k THEN 1 ELSE 0]) : k \in 1..d}
Arrays == UNION {UnitArrays(d) : d \in 1..MaxDim}

\* What one get_word_vector call can do: return an array, return None
\* ("not found"), return some other non-array value, or raise.
Returns(v) == [kind |-> "return", value |-> v]
Raises(e) == [kind |-> "raise", value |-> e]
BackendError == [type |-> "OSError"]
LookupOutcomes ==
    {Returns(a) : a \in Arrays} \cup
    {Returns(None), Returns(pylist(<<1>>)), Raises(BackendError)}

Word(s) == [string |-> s, embedding |-> None]
Doc(ws) == [words |-> ws]

----------------------------------------------------------------------------
\* Backend interface (cltkv1.embeddings.embeddings, outside the sources).
get_embedding_length(embeddings_obj) == veclen
get_word_vector(embeddings_obj, word) == table[word]

----------------------------------------------------------------------------
\* EmbeddingsProcess.algorithm

valid_variants == <<"fasttext", "nlpl">>

RECURSIVE join(_, _)
join(sep, parts) ==
    IF parts = <<>> THEN <<>>
    ELSE IF Len(parts) = 1 THEN <<parts[1]>>
    ELSE <<parts[1], sep>> \o join(sep, Tail(parts))

\* The f-string of the error, as its sequence of fragments (the literal
\* fragments are written without the source's double backquotes).
CLTKException(variant) ==
    [type |-> "CLTKException",
     message |-> <<"Invalid embeddings variant ", variant,
                   ". Available: '">>
                 \o join("', '", valid_variants) \o <<"'.">>]

\* Mutant of algorithm: an unknown variant falls back to the default backend.
algorithm_default(self) ==
    IF self.variant = "nlpl"
    THEN [exc |-> None,
          new |-> [type |-> "Word2VecEmbeddings", iso_code |-> self.language]]
    ELSE [exc |-> None,
          new |-> [type |-> "FastTextEmbeddings", iso_code |-> self.language]]

\* The body of the property: what it raises, or the constructor call it makes.
algorithm(self) ==
    IF self.variant = "fasttext"
    THEN [exc |-> None,
          new |-> [type |-> "FastTextEmbeddings", iso_code |-> self.language]]
    ELSE IF self.variant = "nlpl"
    THEN [exc |-> None,
          new |-> [type |-> "Word2VecEmbeddings", iso_code |-> self.language]]
    ELSE [exc |-> CLTKException(self.variant), new |-> None]

\* A constructor call: a new object, with its own identity.
construct(new, os) ==
    [value |-> [type |-> new.type, id |-> Len(os) + 1],
     objs |-> Append(os, new)]

\* Mutant of cachedproperty_store: an entry already there wins (setdefault).
cachedproperty_setdefault(self, value) ==
    IF self.cached # <<>>
    THEN [cached |-> self.cached, value |-> self.cached[1]]
    ELSE [cached |-> <<value>>, value |-> value]

\* value = obj.__dict__[name] = func(obj): the store, and what is returned.
cachedproperty_store(self, value) ==
    [cached |-> <<value>>, value |-> value]

\* Mutant of cachedproperty: a plain property, nothing is stored.
cachedproperty_plain(self, r, os) ==
    IF r.exc # None
    THEN [exc |-> r.exc, value |-> None, cached |-> self.cached, objs |-> os]
    ELSE IF r.new = None
    THEN [exc |-> None, value |-> None, cached |-> self.cached, objs |-> os]
    ELSE [exc |-> None, value |-> [type |-> r.new.type, id |-> Len(os) + 1],
          cached |-> self.cached, objs |-> Append(os, r.new)]

\* Mutant of cachedproperty: a failure of the function is cached as None.
cachedproperty_failure_cached(self, r, os) ==
    IF self.cached # <<>>
    THEN [exc |-> None, value |-> self.cached[1], cached |-> self.cached,
          objs |-> os]
    ELSE IF r.exc # None
    THEN [exc |-> r.exc, value |-> None, cached |-> <<None>>, objs |-> os]
    ELSE IF r.new = None
    THEN [exc |-> None, value |-> None, cached |-> <<None>>, objs |-> os]
    ELSE LET h == [type |-> r.new.type, id |-> Len(os) + 1]
         IN [exc |-> None, value |-> h, cached |-> <<h>>,
             objs |-> Append(os, r.new)]

\* Reading a @cachedproperty attribute: the instance __dict__ entry when there
\* is one; otherwise the function runs, and its result (when it raised
\* nothing) is stored in __dict__ and returned. `r` is the function's result,
\* `os` the objects constructed so far. self.cached is <<>> or <<value>>.
cachedproperty(self, r, os) ==
    IF self.cached # <<>>
    THEN [exc |-> None, value |-> self.cached[1], cached |-> self.cached,
          objs |-> os]
    ELSE IF r.exc # None
    THEN [exc |-> r.exc, value |-> None, cached |-> self.cached, objs |-> os]
    ELSE IF r.new = None
    THEN [exc |-> None, value |-> None, cached |-> <<None>>, objs |-> os]
    ELSE LET c == construct(r.new, os)
             st == cachedproperty_store(self, c.value)
         IN [exc |-> None, value |-> st.value, cached |-> st.cached,
             objs |-> c.objs]

----------------------------------------------------------------------------
\* EmbeddingsProcess.run

\* Mutant of np_zeros: np.ones.
np_ones(n) == ndarray([i \in 1..n |-> 1])

np_zeros(n) == ndarray([i \in 1..n |-> 0])

\* if not isinstance(word_embedding, np.ndarray): word_embedding = np.zeros(..)
fallback(word_embedding, embedding_length) ==
    IF ~isinstance(word_embedding, "ndarray")
    THEN np_zeros(embedding_length)
    ELSE word_embedding

\* Mutant of set_embedding: a vector already there is added to (+=).
set_embedding_accumulate(word_obj, word_embedding) ==
    IF word_obj.embedding = None
       \/ Len(word_obj.embedding.value) # Len(word_embedding.value)
    THEN [word_obj EXCEPT !.embedding = word_embedding]
    ELSE [word_obj EXCEPT
            !.embedding =
                ndarray([i \in 1..Len(word_embedding.value) |->
                            word_obj.embedding.value[i]
                            + word_embedding.value[i]])]

\* word_obj.embedding = word_embedding
set_embedding(word_obj, word_embedding) ==
    [word_obj EXCEPT !.embedding = word_embedding]

\* Python truthiness of the local embedding_length (None or an int).
falsy(embedding_length) ==
    \/ embedding_length = None
    \/ embedding_length = [type |-> "int", value |-> 0]

\* Mutant of loop_body: a failing lookup is caught and zero-filled.
loop_body_catch(st, index, embeddings_obj) ==
    LET word_obj == st.words[index]
        query == falsy(st.embedding_length)
        embedding_length ==
            IF query
            THEN [type |-> "int",
                  value |-> get_embedding_length(embeddings_obj)]
            ELSE st.embedding_length
        tr == (IF query THEN Append(st.trace, <<"get_embedding_length">>)
               ELSE st.trace)
              \o <<(<<"get_word_vector", word_obj.string>>)>>
        got == get_word_vector(embeddings_obj, word_obj.string)
        word_embedding == IF got.kind = "raise" THEN None ELSE got.value
    IN [st EXCEPT
          !.embedding_length = embedding_length,
          !.trace = tr,
          !.words[index] =
              set_embedding(word_obj,
                            fallback(word_embedding, embedding_length.value))]

\* One iteration of the for loop. st holds the loop's state: the words of
\* tmp_doc, the local embedding_length, the backend calls made, the exception.
loop_body(st, index, embeddings_obj) ==
    LET word_obj == st.words[index]
        query == falsy(st.embedding_length)
        embedding_length ==
            IF query
            THEN [type |-> "int",
                  value |-> get_embedding_length(embeddings_obj)]
            ELSE st.embedding_length
        tr == (IF query THEN Append(st.trace, <<"get_embedding_length">>)
               ELSE st.trace)
              \o <<(<<"get_word_vector", word_obj.string>>)>>
        got == get_word_vector(embeddings_obj, word_obj.string)
    IN IF got.kind = "raise"
       THEN [st EXCEPT !.embedding_length = embedding_length, !.trace = tr,
                       !.exc = got.value]
       ELSE [st EXCEPT
               !.embedding_length = embedding_length,
               !.trace = tr,
               !.words[index] =
                   set_embedding(word_obj,
                                 fallback(got.value, embedding_length.value))]

\* for index, word_obj in enumerate(tmp_doc.words), from position `index` on;
\* an exception ends it.
RECURSIVE for_loop(_, _, _)
for_loop(st, index, embeddings_obj) ==
    IF index > Len(st.words) \/ st.exc # None THEN st
    ELSE for_loop(loop_body(st, index, embeddings_obj), index + 1,
                  embeddings_obj)

\* Mutant of run: the loop works on a copy of the input document, which
\* becomes the output.
run_copy(self, h, os) ==
    LET tmp_doc == DocRef(Len(h) + 1)
        got == cachedproperty(self, algorithm(self), os)
    IN IF got.exc # None
       THEN [exc |-> got.exc, self |-> self, heap |-> h, objs |-> os,
             trace |-> <<>>, obj |-> None]
       ELSE LET st == for_loop([words |-> h[self.input_doc.id].words,
                                embedding_length |-> None,
                                trace |-> <<>>, exc |-> None],
                               1, got.value)
            IN [exc |-> st.exc,
                self |-> [self EXCEPT
                            !.cached = got.cached,
                            !.output_doc =
                                IF st.exc = None THEN tmp_doc ELSE @],
                heap |-> Append(h, [words |-> st.words]),
                objs |-> got.objs,
                trace |-> st.trace,
                obj |-> got.value]

\* The whole of run(): the new instance, heap and objects, what it raised
\* and the backend calls it made.
run(self, h, os) ==
    LET tmp_doc == self.input_doc
        got == cachedproperty(self, algorithm(self), os)
    IN IF got.exc # None
       THEN [exc |-> got.exc, self |-> self, heap |-> h, objs |-> os,
             trace |-> <<>>, obj |-> None]
       ELSE LET st == for_loop([words |-> h[tmp_doc.id].words,
                                embedding_length |-> None,
                                trace |-> <<>>, exc |-> None],
                               1, got.value)
            IN [exc |-> st.exc,
                self |-> [self EXCEPT
                            !.cached = got.cached,
                            !.output_doc =
                                IF st.exc = None THEN tmp_doc ELSE @],
                heap |-> [h EXCEPT ![tmp_doc.id].words = st.words],
                objs |-> got.objs,
                trace |-> st.trace,
                obj |-> got.value]

----------------------------------------------------------------------------
\* Single-threaded use of one EmbeddingsProcess.

\* The state right after EmbeddingsProcess(input_doc=Doc(words=...),
\* language=..., variant=...) returned.
Init ==
    /\ \E l \in Languages, v \in Variants :
         proc = [cls |-> "EmbeddingsProcess", language |-> l, variant |-> v,
                 input_doc |-> DocRef(1), output_doc |-> None,
                 cached |-> <<>>]
    /\ \E ss \in SeqsUpTo(Strings, MaxTokens) :
         heap = <<Doc([i \in 1..Len(ss) |-> Word(ss[i])])>>
    /\ objs = <<>>
    /\ veclen \in 1..MaxDim
    /\ table \in [Strings -> LookupOutcomes]
    /\ last = [op |-> "__init__", exc |-> None, value |-> None]
    /\ trace = <<>>
    /\ seen = {}
    /\ calls = <<>>
    /\ threads = <<>>

\* value = process.algorithm
GetAlgorithm ==
    LET got == cachedproperty(proc, algorithm(proc), objs)
    IN /\ Len(calls) < MaxCalls
       /\ calls' = Append(calls, "algorithm")
       /\ proc' = [proc EXCEPT !.cached = got.cached]
       /\ objs' = got.objs
       /\ last' = [op |-> "algorithm", exc |-> got.exc, value |-> got.value]
       /\ trace' = <<>>
       /\ seen' = IF got.exc = None THEN seen \cup {got.value} ELSE seen
       /\ UNCHANGED <<heap, veclen, table, threads>>

\* process.run()
Run ==
    LET r == run(proc, heap, objs)
    IN /\ Len(calls) < MaxCalls
       /\ calls' = Append(calls, "run")
       /\ proc' = r.self
       /\ heap' = r.heap
       /\ objs' = r.objs
       /\ last' = [op |-> "run", exc |-> r.exc, value |-> None]
       /\ trace' = r.trace
       /\ seen' = IF r.obj # None THEN seen \cup {r.obj} ELSE seen
       /\ UNCHANGED <<veclen, table, threads>>

Next == GetAlgorithm \/ Run

Spec == Init /\ [][Next]_vars

----------------------------------------------------------------------------
\* WordNetProcess

WordNetLanguages == {"lat", "grc", "san", "xyz"}

str(v) == [type |-> "str", value |-> v]

\* Mutant of WordNetProcess_algorithm: the ISO code is passed on unmapped.
WordNetProcess_algorithm_unmapped(self) ==
    IF self.language \in {"lat", "grc", "san"}
    THEN [exc |-> None,
          new |-> [type |-> "WordNetCorpusReader",
                   iso_code |-> self.language]]
    ELSE [exc |-> None, new |-> None]

\* The body of the property: the reader it constructs, or None.
WordNetProcess_algorithm(self) ==
    LET language ==
            IF self.language = "lat" THEN str("lat")
            ELSE IF self.language = "grc" THEN str("grk")
            ELSE IF self.language = "san" THEN str("skt")
            ELSE None
    IN IF language # None
       THEN [exc |-> None,
             new |-> [type |-> "WordNetCorpusReader",
                      iso_code |-> language.value]]
       ELSE [exc |-> None, new |-> None]

\* run(): pass
WordNetProcess_run(self, h, os) ==
    [exc |-> None, self |-> self, heap |-> h, objs |-> os]

\* The state right after WordNetProcess(input_doc=Doc(words=...),
\* language=...) returned; the words may carry vectors already.
InitWordNet ==
    /\ \E l \in WordNetLanguages :
         proc = [cls |-> "WordNetProcess", language |-> l,
                 input_doc |-> DocRef(1), output_doc |-> None,
                 cached |-> <<>>]
    /\ \E ws \in SeqsUpTo([string : Strings,
                           embedding : {None} \cup UnitArrays(1)],
                          MaxTokens) :
         heap = <<Doc(ws)>>
    /\ objs = <<>>
    /\ veclen = 1
    /\ table = [s \in Strings |-> Returns(None)]
    /\ last = [op |-> "__init__", exc |-> None, value |-> None]
    /\ trace = <<>>
    /\ seen = {}
    /\ calls = <<>>
    /\ threads = <<>>

\* value = process.algorithm
WordNetGetAlgorithm ==
    LET got == cachedproperty(proc, WordNetProcess_algorithm(proc), objs)
    IN /\ Len(calls) < MaxCalls
       /\ calls' = Append(calls, "algorithm")
       /\ proc' = [proc EXCEPT !.cached = got.cached]
       /\ objs' = got.objs
       /\ last' = [op |-> "algorithm", exc |-> got.exc, value |-> got.value]
       /\ seen' = IF got.exc = None THEN seen \cup {got.value} ELSE seen
       /\ UNCHANGED <<heap, veclen, table, trace, threads>>

\* process.run()
WordNetRun ==
    LET r == WordNetProcess_run(proc, heap, objs)
    IN /\ Len(calls) < MaxCalls
       /\ calls' = Append(calls, "run")
       /\ proc' = r.self
       /\ heap' = r.heap
       /\ objs' = r.objs
       /\ last' = [op |-> "run", exc |-> r.exc, value |-> None]
       /\ UNCHANGED <<veclen, table, trace, seen, threads>>

NextWordNet == WordNetGetAlgorithm \/ WordNetRun

SpecWordNet == InitWordNet /\ [][NextWordNet]_vars

----------------------------------------------------------------------------
\* Two threads using one EmbeddingsProcess at once. A thread switch can fall
\* between the __dict__ miss and the call of the property's function, inside
\* that call, before the store into __dict__, and between loop iterations.

Threads == {1, 2}

\* A backend that treats every word alike.
ThreadOutcomes(n) ==
    {Returns(None), Raises(BackendError),
     Returns(ndarray([i \in 1..n |-> IF i = 1 THEN 1 ELSE 0]))}

InitThreads ==
    /\ \E l \in Languages, v \in Variants :
         proc = [cls |-> "EmbeddingsProcess", language |-> l, variant |-> v,
                 input_doc |-> DocRef(1), output_doc |-> None,
                 cached |-> <<>>]
    /\ \E ss \in SeqsUpTo(Strings, MaxTokens) :
         heap = <<Doc([i \in 1..Len(ss) |-> Word(ss[i])])>>
    /\ objs = <<>>
    /\ veclen \in 1..MaxDim
    /\ \E o \in ThreadOutcomes(veclen) : table = [s \in Strings |-> o]
    /\ last = [op |-> "__init__", exc |-> None, value |-> None]
    /\ trace = <<>>
    /\ seen = {}
    /\ calls = <<>>
    /\ \E ops \in [Threads -> {"algorithm", "run"}] :
         threads = [t \in Threads |->
                      [pc |-> "start", op |-> ops[t], missed |-> FALSE,
                       value |-> None, obj |-> None, index |-> 1,
                       embedding_length |-> None, exc |-> None]]

\* Where a thread goes once its access to ``algorithm`` has returned.
resolved(op) == IF op = "run" THEN "loop" ELSE "done"

\* self.algorithm, the attribute lookup: the __dict__ entry when there is
\* one, otherwise the descriptor's __get__ is entered.
ThreadLookup(t) ==
    /\ threads[t].pc = "start"
    /\ IF proc.cached # <<>>
       THEN /\ threads' = [threads EXCEPT
                             ![t].obj = proc.cached[1],
                             ![t].pc = resolved(threads[t].op)]
            /\ seen' = seen \cup {proc.cached[1]}
       ELSE /\ threads' = [threads EXCEPT ![t].missed = TRUE,
                                          ![t].pc = "func"]
            /\ seen' = seen
    /\ UNCHANGED <<proc, heap, objs, veclen, table, last, trace, calls>>

\* self.func(obj): the property's function raises or constructs a backend.
ThreadFunc(t) ==
    /\ threads[t].pc = "func"
    /\ LET r == algorithm(proc)
       IN IF r.exc # None
          THEN /\ threads' = [threads EXCEPT ![t].exc = r.exc,
                                             ![t].pc = "done"]
               /\ objs' = objs
          ELSE LET c == construct(r.new, objs)
               IN /\ threads' = [threads EXCEPT ![t].value = c.value,
                                                ![t].pc = "store"]
                  /\ objs' = c.objs
    /\ UNCHANGED <<proc, heap, veclen, table, last, trace, seen, calls>>

\* value = obj.__dict__[name] = ...; return value
ThreadStore(t) ==
    /\ threads[t].pc = "store"
    /\ LET st == cachedproperty_store(proc, threads[t].value)
       IN /\ proc' = [proc EXCEPT !.cached = st.cached]
          /\ threads' = [threads EXCEPT ![t].obj = st.value,
                                        ![t].pc = resolved(threads[t].op)]
          /\ seen' = seen \cup {st.value}
    /\ UNCHANGED <<heap, objs, veclen, table, last, trace, calls>>

\* One iteration of run()'s loop on the shared document, or its end.
ThreadLoop(t) ==
    /\ threads[t].pc = "loop"
    /\ LET d == proc.input_doc.id
       IN IF threads[t].index > Len(heap[d].words)
          THEN /\ threads' = [threads EXCEPT ![t].pc = "assign"]
               /\ heap' = heap
          ELSE LET st == loop_body(
                            [words |-> heap[d].words,
                             embedding_length |-> threads[t].embedding_length,
                             trace |-> <<>>, exc |-> None],
                            threads[t].index, threads[t].obj)
               IN /\ heap' = [heap EXCEPT ![d].words = st.words]
                  /\ threads' =
                       [threads EXCEPT
                          ![t].embedding_length = st.embedding_length,
                          ![t].exc = st.exc,
                          ![t].index = @ + 1,
                          ![t].pc = IF st.exc # None THEN "done" ELSE "loop"]
    /\ UNCHANGED <<proc, objs, veclen, table, last, trace, seen, calls>>

\* self.output_doc = tmp_doc
ThreadAssign(t) ==
    /\ threads[t].pc = "assign"
    /\ proc' = [proc EXCEPT !.output_doc = proc.input_doc]
    /\ threads' = [threads EXCEPT ![t].pc = "done"]
    /\ UNCHANGED <<heap, objs, veclen, table, last, trace, seen, calls>>

NextThreads ==
    \E t \in Threads :
        \/ ThreadLookup(t)
        \/ ThreadFunc(t)
        \/ ThreadStore(t)
        \/ ThreadLoop(t)
        \/ ThreadAssign(t)

SpecThreads == InitThreads /\ [][NextThreads]_vars

----------------------------------------------------------------------------
\* Properties of the single-threaded EmbeddingsProcess (checked under Spec).

ValidVariant == proc.variant \in {"fasttext", "nlpl"}
words == heap[proc.input_doc.id].words
outcome(i) == table[words[i].string]
Positions == 1..Len(words)
RanOK == last.op = "run" /\ last.exc = None
strings(d) == [i \in 1..Len(d.words) |-> d.words[i].string]
lookups == SelectSeq(trace, LAMBDA c : c[1] = "get_word_vector")

\* C1: for a "fasttext" or "nlpl" instance nothing is constructed before the
\* first access to ``algorithm``; from the first access (directly or through
\* run) on, exactly one backend has been constructed, with the instance's
\* language, and every access has returned that one handle.
C1_LazyMemoized ==
    ValidVariant =>
        /\ (last.op = "__init__" => objs = <<>> /\ proc.cached = <<>>)
        /\ (last.op # "__init__" =>
              /\ Len(objs) = 1
              /\ objs[1].iso_code = proc.language
              /\ proc.cached = <<[type |-> objs[1].type, id |-> 1]>>
              /\ seen = {proc.cached[1]})

C1_Witness ==
    /\ ValidVariant
    /\ calls = <<"algorithm", "run", "algorithm">>
    /\ proc.output_doc # None
    /\ Len(objs) = 1

\* C2: for a variant other than "fasttext" and "nlpl" the instance is created
\* without error and without a backend, and an access to ``algorithm`` raises
\* a CLTKException whose message holds the invalid variant and both valid
\* names.
C2_InvalidVariantError ==
    ~ValidVariant =>
        /\ (last.op = "__init__" => last.exc = None /\ objs = <<>>)
        /\ (last.op = "algorithm" =>
              /\ last.exc.type = "CLTKException"
              /\ \E i \in DOMAIN last.exc.message :
                     last.exc.message[i] = proc.variant
              /\ \E i \in DOMAIN last.exc.message :
                     last.exc.message[i] = "fasttext"
              /\ \E i \in DOMAIN last.exc.message :
                     last.exc.message[i] = "nlpl")

C2_Witness ==
    /\ proc.variant = "nonexistent"
    /\ last.op = "algorithm"
    /\ last.exc.type = "CLTKException"

AllValid ==
    \A i \in Positions :
        /\ outcome(i).kind = "return"
        /\ isinstance(outcome(i).value, "ndarray")
        /\ Len(outcome(i).value.value) = veclen

C3_State ==
    (ValidVariant /\ AllValid /\ last.op = "run") =>
        /\ last.exc = None
        /\ proc.output_doc = proc.input_doc
        /\ Len(heap) = 1
        /\ \A i \in Positions :
              /\ words[i].embedding = outcome(i).value
              /\ Len(words[i].embedding.value) = veclen

C3_OrderKept ==
    last'.op = "run" =>
        strings(heap'[proc'.input_doc.id]) = strings(heap[proc.input_doc.id])

\* C3: when the backend returns an array of length L for every token of the
\* document, run() ends without error, every token holds the backend's array
\* for its string (of length L), the output document is the input document
\* object itself, and the token strings are the same in the same order.
C3_RunSetsVectors == [](C3_State) /\ [][C3_OrderKept]_vars

C3_Witness ==
    /\ ValidVariant /\ AllValid /\ RanOK
    /\ Len(words) = MaxTokens
    /\ words[1].string # words[2].string
    /\ words[1].embedding # words[2].embedding

FoundOrNot ==
    \A i \in Positions :
        /\ outcome(i).kind = "return"
        /\ outcome(i).value.type \in {"ndarray", "NoneType"}

\* C4: when every lookup returns either an array or "not found" (None),
\* after run() each not-found token holds the all-zero vector of the
\* backend's length L and every other token holds exactly the array the
\* backend returned for it.
C4_NotFoundZeroFilled ==
    (ValidVariant /\ FoundOrNot /\ last.op = "run") =>
        /\ last.exc = None
        /\ \A i \in Positions :
              IF outcome(i).value = None
              THEN words[i].embedding = ndarray([k \in 1..veclen |-> 0])
              ELSE words[i].embedding = outcome(i).value

\* tokens ["a", "b"], "a" -> [1.0, 0.0], "b" not found.
C4_Witness ==
    /\ ValidVariant /\ last.op = "run"
    /\ strings(heap[1]) = <<"a", "b">>
    /\ veclen = 2
    /\ table["a"] = Returns(ndarray(<<1, 0>>))
    /\ table["b"] = Returns(None)
    /\ words[1].embedding = ndarray(<<1, 0>>)
    /\ words[2].embedding = ndarray(<<0, 0>>)

\* C5: after a run() that ends without error every token holds a vector of
\* the backend's length L, whatever its lookup returned (a result that is no
\* array of length L having been replaced by the zero vector of length L).
C5_UniformLength ==
    RanOK =>
        \A i \in Positions :
            /\ isinstance(words[i].embedding, "ndarray")
            /\ Len(words[i].embedding.value) = veclen
            /\ (~(/\ isinstance(outcome(i).value, "ndarray")
                  /\ Len(outcome(i).value.value) = veclen)) =>
                   words[i].embedding = ndarray([k \in 1..veclen |-> 0])

C6_Step ==
    (RanOK /\ last'.op = "run") => (last'.exc = None /\ heap' = heap)

\* C6: a run() that directly follows a run() which ended without error, on
\* the same instance and document, ends without error and leaves every
\* token's vector as it was.
C6_RunIdempotent == [][C6_Step]_vars

C6_Witness ==
    /\ RanOK
    /\ calls = <<"run", "run">>
    /\ Len(words) = MaxTokens
    /\ \E i \in Positions : outcome(i).value = None
    /\ \E i \in Positions : isinstance(outcome(i).value, "ndarray")

FirstRaise(i) ==
    /\ i \in Positions
    /\ outcome(i).kind = "raise"
    /\ \A j \in 1..(i - 1) : outcome(j).kind = "return"

\* C8: when the lookup of the token at position i raises (and none before it
\* does), run() ends with that same failure, the tokens before i hold their
\* vectors, token i and every token after it are not written, the lookups
\* made are exactly those of positions 1..i, and no output document is set.
C8_LookupFailurePropagates ==
    (ValidVariant /\ last.op = "run") =>
        \A i \in Positions :
            FirstRaise(i) =>
                /\ last.exc = outcome(i).value
                /\ \A j \in 1..(i - 1) :
                       isinstance(words[j].embedding, "ndarray")
                /\ \A j \in i..Len(words) : words[j].embedding = None
                /\ lookups = [j \in 1..i |->
                                 <<"get_word_vector", words[j].string>>]
                /\ proc.output_doc = None

C8_Witness ==
    /\ ValidVariant /\ last.op = "run"
    /\ Len(words) = MaxTokens
    /\ FirstRaise(1)
    /\ outcome(2).kind = "return"
    /\ last.exc = BackendError

\* C10: on an instance with an invalid variant every run() and every access
\* to ``algorithm`` raises the configuration error, with no backend call made,
\* no backend constructed, no token written, no output document set and
\* nothing cached.
C10_InvalidVariantRun ==
    (~ValidVariant /\ last.op \in {"run", "algorithm"}) =>
        /\ last.exc.type = "CLTKException"
        /\ last.exc.message[2] = proc.variant
        /\ trace = <<>>
        /\ objs = <<>>
        /\ seen = {}
        /\ \A i \in Positions : words[i].embedding = None
        /\ proc.output_doc = None
        /\ proc.cached = <<>>
        /\ Len(heap) = 1

C10_Witness ==
    /\ ~ValidVariant
    /\ calls = <<"run", "algorithm", "run">>
    /\ Len(words) = MaxTokens
    /\ last.exc.type = "CLTKException"

----------------------------------------------------------------------------
\* Properties of the WordNetProcess (checked under SpecWordNet).

Accessed == \E i \in DOMAIN calls : calls[i] = "algorithm"
ReaderCode ==
    [l \in {"lat", "grc", "san"} |->
        IF l = "lat" THEN "lat" ELSE IF l = "grc" THEN "grk" ELSE "skt"]

C7_State ==
    /\ last.exc = None
    /\ ~Accessed => (objs = <<>> /\ proc.cached = <<>>)
    /\ (Accessed /\ proc.language \in DOMAIN ReaderCode) =>
          /\ objs = <<[type |-> "WordNetCorpusReader",
                       iso_code |-> ReaderCode[proc.language]]>>
          /\ proc.cached = <<[type |-> "WordNetCorpusReader", id |-> 1]>>
          /\ seen = {proc.cached[1]}
    /\ (Accessed /\ proc.language \notin DOMAIN ReaderCode) =>
          /\ objs = <<>>
          /\ proc.cached = <<None>>
          /\ seen = {None}

C7_RunNoOp ==
    calls' = Append(calls, "run") =>
        (heap' = heap /\ proc' = proc /\ objs' = objs)

\* C7: an access to a WordNetProcess's ``algorithm`` constructs a reader
\* with code "lat" for language "lat", "grk" for "grc" and "skt" for "san",
\* and for any other language returns None without raising and without
\* constructing anything; over any sequence of accesses at most one reader is
\* constructed and every access returns the same value; run() changes
\* neither the document nor the process.
C7_WordNetResolution == [](C7_State) /\ [][C7_RunNoOp]_vars

C7_Witness ==
    /\ proc.cls = "WordNetProcess"
    /\ proc.language = "grc"
    /\ calls = <<"algorithm", "run", "algorithm">>
    /\ Len(objs) = 1
    /\ objs[1].iso_code = "grk"
    /\ Len(words) = MaxTokens

----------------------------------------------------------------------------
\* Properties of concurrent use (checked under SpecThreads).

Constructed(t) == threads[t].missed /\ threads[t].pc \notin {"start", "func"}
Holding(t) == threads[t].obj # None

\* C9: nothing synchronizes the first access: every thread that found the
\* handle unresolved constructs a backend of its own, so when both threads
\* found it unresolved the backend is constructed twice and the two threads
\* go on with different handles.
C9_UnsynchronizedFirstAccess ==
    (proc.variant \in {"fasttext", "nlpl"}) =>
        /\ Len(objs) = Cardinality({t \in Threads : Constructed(t)})
        /\ (\A t \in Threads : threads[t].missed /\ Holding(t)) =>
              /\ Len(objs) = 2
              /\ threads[1].obj # threads[2].obj
              /\ Cardinality(seen) = 2

C9_Witness ==
    /\ \A t \in Threads : threads[t].pc = "done" /\ threads[t].missed
    /\ threads[1].op = "run" /\ threads[2].op = "algorithm"
    /\ Len(objs) = 2
    /\ threads[1].obj # threads[2].obj
    /\ proc.output_doc = proc.input_doc
    /\ Len(words) = MaxTokens

====
